---- MODULE Spec2Model ----
(***************************************************************************)
(* Model of src/infinite-slider.js (class WMInfiniteSlider): the build     *)
(* pipeline of one slider (waitForImages -> duplicateSlides ->             *)
(* calculateAnimation), the debounced resize handler (bindEvents /         *)
(* resetSlider), destroy, and the shared custom cursor (createCustomCursor *)
(* / initSharedCursor).                                                    *)
(*                                                                         *)
(* The browser is the environment: image load/error events, animation      *)
(* frames, timers, resize notifications, pointer events and the visibility *)
(* of a section are actions of the model.  JavaScript runs one task at a   *)
(* time, so every handler is one atomic action; a promise continuation is  *)
(* a microtask, and no other task may run while one is pending.            *)
(*                                                                         *)
(* Numbers are integers.  Widths are whole pixels; a duration is kept as   *)
(* the exact fraction num/den instead of a float; the cursor's lerp with   *)
(* factor 0.1 is computed with integer division.  Item indices are 1-based *)
(* (dataset.index is 0-based in the source).                               *)
(***************************************************************************)
EXTENDS Integers, Sequences, FiniteSets, TLC

\* ------------------------------------------------------------ constants
RetryLimit == 100
DebounceDelay == 250
MobileBreakpoint == 768
SpeedMobile == 30
SpeedDesktop == 50
CoverageFactor == 3
MinDuplications == 2
LerpDivisor == 10

\* Bound of the model: how many zero-width retry callbacks of one track may
\* be pending when a resize notification is accepted.
MaxChains == 2

\* null: no object (a record, so that it compares with the objects it stands for).
Null == [null |-> TRUE]

\* The engine instances (one per page section matched by the plugin).
Insts == {"A", "B", "C"}

\* Item lists (with the width each rendered slide measures when laid out),
\* the track's CSS gap, and the items whose image fails to load (its "error"
\* event comes instead of "load").
Item(w, t, l) == [w |-> w, title |-> t, link |-> l]

ItemsWide == << Item(100, "one", TRUE), Item(150, "", FALSE), Item(120, "three", FALSE) >>

ItemsFlat == << Item(0, "one", FALSE), Item(0, "two", TRUE) >>

Layouts ==
  { [items |-> ItemsWide, gap |-> 20, broken |-> {}],
    [items |-> ItemsWide, gap |-> 0, broken |-> {2}],
    [items |-> ItemsFlat, gap |-> 0, broken |-> {1, 2}],
    [items |-> << >>, gap |-> 20, broken |-> {}] }

\* window.innerWidth / window.innerHeight the environment may present.
Viewports == { [w |-> 767, h |-> 600], [w |-> 768, h |-> 620] }

HalfDelay == DebounceDelay \div 2

TimeSteps == {HalfDelay, DebounceDelay}

VARIABLES
  sections,        \* the sections of the page that get an instance
  page,            \* per section: item list, gap, settings.customCursor
  life,            \* "none" (not constructed) | "live" | "destroyed"
  built,           \* init() passed the no-items guard (layout built, events bound)
  attached,        \* the plugin content (and its track) is in the document
  hidden,          \* the track is not laid out (display: none)
  unsettled,       \* images whose load/error event is still to come
  imagesLoaded,    \* this.imagesLoaded
  track,           \* children, dataset.duplicationAttempts, dataset.initialized
  published,       \* --scroll-distance / --scroll-duration on the section
  retries,         \* pending requestAnimationFrame(duplicateSlides) callbacks
  timers,          \* pending setTimeout callbacks of the resize handler
  resizeTimer,     \* this.resizeTimer (a timer id, 0 for null)
  innerWidth,      \* window.innerWidth
  innerHeight,     \* window.innerHeight
  sharedCursor,    \* WMInfiniteSlider.sharedCursor (with its element's state)
  cursorInstances, \* WMInfiniteSlider.cursorInstances
  cursorHandlers,  \* this._cursorHandlers is set (mouse listeners attached)
  animPending,     \* pending requestAnimationFrame(animate) callbacks
  obs,             \* observations of the run (history, not program state)
  pointerItem      \* observation: the item the latest pointer event was over

vars == << sections, page, life, built, attached, hidden, unsettled, imagesLoaded,
           track, published, retries, timers, resizeTimer, innerWidth, innerHeight,
           sharedCursor, cursorInstances, cursorHandlers, animPending, obs,
           pointerItem >>

\* ------------------------------------------------------------ helpers
Max(a, b) == IF a >= b THEN a ELSE b

Min(a, b) == IF a <= b THEN a ELSE b

CeilDiv(a, b) == (a + b - 1) \div b

RECURSIVE SumSeq(_)
SumSeq(s) == IF s = << >> THEN 0 ELSE Head(s) + SumSeq(Tail(s))

ItemIndices(i) == 1 .. Len(page[i].items)

\* buildSlide for every item, in order: the base sequence, nothing cloned.
BaseChildren(i) == [k \in ItemIndices(i) |-> [index |-> k, cloned |-> FALSE]]

EmptyTrack == [children |-> << >>, attempts |-> 0, initialized |-> FALSE]

\* What is observed of the latest pass of duplicateSlides that appended clones:
\* the viewport and track width it measured, how many children the track had,
\* whether a clone was among them.
NoDup == [vw |-> 0, tw |-> 0, from |-> 0, fromClones |-> FALSE]

NoObs ==
  [ measuredVw |-> 0, warned |-> {}, buildPublished |-> FALSE, zeroRun |-> 0,
    rescheduled |-> 0, deferredDone |-> FALSE, afterDestroy |-> FALSE,
    earlyPass |-> FALSE, sinceResize |-> DebounceDelay, notified |-> FALSE,
    superseded |-> FALSE, fired |-> 0, firedEarly |-> FALSE, lastReset |-> "none",
    resetPre |-> FALSE, releasedMoved |-> FALSE, dup |-> NoDup, crossed |-> FALSE,
    ignoredResize |-> FALSE ]

\* ------------------------------------------------------------ geometry
\* Width of the laid-out content of a track: its slides plus the gaps
\* between them.
ContentWidth(i, ch) ==
  IF ch = << >> THEN 0
  ELSE SumSeq([k \in 1 .. Len(ch) |-> page[i].items[ch[k].index].w])
       + page[i].gap * (Len(ch) - 1)

\* sliderTrack.scrollWidth: 0 while the track is hidden or detached.
ScrollWidth(i, ch) == IF hidden[i] \/ ~attached[i] THEN 0 ELSE ContentWidth(i, ch)

\* slide.offsetWidth: 0 while the track is hidden or detached.
OffsetWidth(i, c) == IF hidden[i] \/ ~attached[i] THEN 0 ELSE page[i].items[c.index].w

\* parseFloat(getComputedStyle(sliderTrack).gap || 0): the computed style of a
\* connected element resolves also while it is hidden; a detached element has
\* no computed style ("" || 0).
ComputedGap(i) == IF attached[i] THEN page[i].gap ELSE 0

\* ------------------------------------------------------------ pipeline
\* The part of an instance a pipeline pass reads and writes, as one value, so
\* that the calls a handler makes in sequence compose as functions.
PipeState(i, o) ==
  [track |-> track[i], retries |-> retries[i], published |-> published[i], obs |-> o]

\* What is observed of every pass: the viewport it measured, whether the
\* instance was already destroyed, whether an image was still unsettled.
ObservePass(i, o) ==
  [o EXCEPT !.measuredVw = innerWidth,
            !.afterDestroy = @ \/ life[i] = "destroyed",
            !.earlyPass = @ \/ unsettled[i] # {}]

\* A build attempt starts: the initial build or a reconciliation.
StartBuild(o) ==
  [o EXCEPT !.warned = {}, !.buildPublished = FALSE, !.deferredDone = FALSE,
            !.dup = NoDup]

\* Variant: the guard lets one more retry through.
RetryExhausted_Late(attempts) == attempts > RetryLimit + 1

\* if (attempts > 100)
RetryExhausted(attempts) == attempts > RetryLimit

\* Math.max(2, Math.ceil((viewportWidth * 3) / trackWidth))
Duplications(vw, tw) == Max(MinDuplications, CeilDiv(vw * CoverageFactor, tw))

\* The children of the track after n rounds of cloning every slide of ch, in
\* order, each clone tagged "cloned".
WithClones(ch, n) ==
  [k \in 1 .. Len(ch) * (n + 1) |->
     IF k <= Len(ch) THEN ch[k]
     ELSE [index |-> ch[((k - 1) % Len(ch)) + 1].index, cloned |-> TRUE]]

\* duplicateSlides(sliderTrack); viaFrame: called from the retry callback.
DuplicateSlides(i, st, viaFrame) ==
  LET ch == st.track.children
      tw == ScrollWidth(i, ch)
      o  == ObservePass(i, st.obs)
  IN IF tw = 0
     THEN IF RetryExhausted(st.track.attempts)
          THEN [st EXCEPT !.obs = [o EXCEPT !.warned = @ \cup {"MeasurementUnavailable"},
                                            !.zeroRun = Min(@ + 1, RetryLimit + 2)]]
          ELSE [st EXCEPT !.track.attempts = @ + 1,
                          !.retries = @ + 1,
                          !.obs = [o EXCEPT !.zeroRun = Min(@ + 1, RetryLimit + 2),
                                            !.rescheduled = @ + 1]]
     ELSE [st EXCEPT !.track.attempts = 0,
                     !.track.children = WithClones(ch, Duplications(innerWidth, tw)),
                     !.obs = [o EXCEPT !.zeroRun = 0, !.rescheduled = 0,
                                       !.deferredDone = viaFrame,
                                       !.dup = [vw |-> innerWidth, tw |-> tw,
                                                from |-> Len(ch),
                                                fromClones |->
                                                  \E k \in 1 .. Len(ch) : ch[k].cloned]]]

\* Sum of the offsetWidth of the slides not tagged "cloned", plus one gap per
\* such slide.
ScrollDistance(i, ch) ==
  LET orig == SelectSeq(ch, LAMBDA c : ~c.cloned)
  IN SumSeq([k \in 1 .. Len(orig) |-> OffsetWidth(i, orig[k])]) + ComputedGap(i) * Len(orig)

\* Variant: a viewport of exactly 768 counts as mobile.
Speed_Inclusive(vw) == IF vw <= MobileBreakpoint THEN SpeedMobile ELSE SpeedDesktop

\* isMobile ? speedMobile : speedDesktop
Speed(vw) == IF vw < MobileBreakpoint THEN SpeedMobile ELSE SpeedDesktop

\* Variant: the zero-distance guard warns but does not return.
CalculateAnimation_NoReturn(i, st) ==
  LET d == ScrollDistance(i, st.track.children)
      o == ObservePass(i, st.obs)
  IN [st EXCEPT !.published = [distance |-> 0 - d,
                               duration |-> [num |-> d, den |-> Speed(innerWidth)]],
                !.track.initialized = TRUE,
                !.obs = [o EXCEPT !.buildPublished = TRUE,
                                  !.warned = IF d = 0 THEN @ \cup {"ZeroDistance"} ELSE @]]

\* calculateAnimation(sliderTrack)
CalculateAnimation(i, st) ==
  LET d == ScrollDistance(i, st.track.children)
      o == ObservePass(i, st.obs)
  IN IF d = 0
     THEN [st EXCEPT !.obs = [o EXCEPT !.warned = @ \cup {"ZeroDistance"}]]
     ELSE [st EXCEPT !.published = [distance |-> 0 - d,
                                    duration |-> [num |-> d, den |-> Speed(innerWidth)]],
                     !.track.initialized = TRUE,
                     !.obs = [o EXCEPT !.buildPublished = TRUE]]

\* The instance state after the calls of a handler.
Commit(i, st) ==
  /\ track' = [track EXCEPT ![i] = st.track]
  /\ retries' = [retries EXCEPT ![i] = st.retries]
  /\ published' = [published EXCEPT ![i] = st.published]
  /\ obs' = [obs EXCEPT ![i] = st.obs]

\* Variant: the continuation does not wait for the images.
ContinuationPending_NoWait(i) == built[i] /\ ~imagesLoaded[i]

\* A promise continuation (the .then of waitForImages) is queued: it runs
\* before any other task of the event loop.
ContinuationPending(i) == built[i] /\ unsettled[i] = {} /\ ~imagesLoaded[i]

MicrotaskPending == \E i \in sections : ContinuationPending(i)

\* ------------------------------------------------------------ shared cursor
\* Variant: the current position is not initialized to the initial position.
NewSharedCursor_Unset(h) ==
  [ targetX |-> 0, targetY |-> h \div 2, currentX |-> 0, currentY |-> 0,
    active |-> FALSE, text |-> "", icon |-> FALSE ]

\* The sharedCursor object initSharedCursor stores, with the display state of
\* its element (class "active", the text span, the icon span).
NewSharedCursor(h) ==
  [ targetX |-> 0, targetY |-> h \div 2, currentX |-> 0, currentY |-> h \div 2,
    active |-> FALSE, text |-> "", icon |-> FALSE ]

\* createCustomCursor(): create the singleton if there is none, register.
CreateCustomCursor(i) ==
  /\ sharedCursor' = IF sharedCursor = Null THEN NewSharedCursor(innerHeight) ELSE sharedCursor
  /\ animPending' = IF sharedCursor = Null THEN animPending + 1 ELSE animPending
  /\ cursorInstances' = cursorInstances \cup {i}
  /\ cursorHandlers' = [cursorHandlers EXCEPT ![i] = TRUE]

\* Variant: the custom cursor is created at any viewport width.
WantsCursor_AnyViewport(i) == page[i].customCursor

\* if (this.settings.customCursor && window.innerWidth >= 768)
WantsCursor(i) == page[i].customCursor /\ innerWidth >= MobileBreakpoint

\* ------------------------------------------------------------ initial states
TypeOK ==
  /\ sections \subseteq Insts
  /\ life \in [Insts -> {"none", "live", "destroyed"}]
  /\ built \in [Insts -> BOOLEAN]
  /\ imagesLoaded \in [Insts -> BOOLEAN]
  /\ \A i \in Insts : retries[i] \in Nat /\ track[i].attempts \in 0 .. RetryLimit + 1
  /\ cursorInstances \subseteq Insts
  /\ animPending \in Nat

InitCommon ==
  /\ life = [i \in Insts |-> "none"]
  /\ built = [i \in Insts |-> FALSE]
  /\ attached = [i \in Insts |-> FALSE]
  /\ unsettled = [i \in Insts |-> {}]
  /\ imagesLoaded = [i \in Insts |-> FALSE]
  /\ track = [i \in Insts |-> EmptyTrack]
  /\ published = [i \in Insts |-> Null]
  /\ retries = [i \in Insts |-> 0]
  /\ timers = [i \in Insts |-> {}]
  /\ resizeTimer = [i \in Insts |-> 0]
  /\ sharedCursor = Null
  /\ cursorInstances = {}
  /\ cursorHandlers = [i \in Insts |-> FALSE]
  /\ animPending = 0
  /\ obs = [i \in Insts |-> NoObs]
  /\ pointerItem = Null
  /\ \E v \in Viewports : innerWidth = v.w /\ innerHeight = v.h

NoSection == [items |-> << >>, gap |-> 0, broken |-> {}, customCursor |-> FALSE]

\* One section on the page, any layout, the track hidden or shown; the custom
\* cursor is asked for only where the section has no items.
Init ==
  /\ InitCommon
  /\ sections = {"A"}
  /\ \E l \in Layouts :
       page = [i \in Insts |->
                 IF i = "A"
                 THEN [items |-> l.items, gap |-> l.gap, broken |-> l.broken,
                       customCursor |-> l.items = << >>]
                 ELSE NoSection]
  /\ \E h \in BOOLEAN : hidden = [i \in Insts |-> h /\ i = "A"]

\* What a section may be configured as where the shared cursor is studied.
OverlayPages ==
  { [items |-> ItemsWide, gap |-> 20, broken |-> {}, customCursor |-> TRUE],
    [items |-> ItemsWide, gap |-> 20, broken |-> {}, customCursor |-> FALSE],
    [items |-> << >>, gap |-> 20, broken |-> {}, customCursor |-> TRUE] }

\* Three sections on the page, all shown: A and B each with or without the
\* custom cursor or without items, C with items and the custom cursor.
InitOverlay ==
  /\ InitCommon
  /\ sections = Insts
  /\ page \in [Insts -> OverlayPages]
  /\ page["C"].items # << >> /\ page["C"].customCursor
  /\ hidden = [i \in Insts |-> FALSE]

\* ------------------------------------------------------------ actions
\* Variant: init() goes on without items.
HasItems_Always(i) == TRUE

\* init(): extractData() found items (this.data is a non-empty list).
HasItems(i) == page[i].items # << >>

\* new WMInfiniteSlider(el, settings): init(), with the images in U still
\* loading when waitForImages looks at them (the others are complete; an
\* image that fails has not failed yet, its element was just created).
Construct(i, U) ==
  /\ i \in sections
  /\ life[i] = "none"
  /\ U \subseteq ItemIndices(i)
  /\ page[i].broken \subseteq U
  /\ life' = [life EXCEPT ![i] = "live"]
  /\ IF ~HasItems(i)
     THEN /\ obs' = [obs EXCEPT ![i].warned = @ \cup {"MissingSource"}]
          /\ UNCHANGED << built, attached, unsettled, track, sharedCursor, animPending,
                          cursorInstances, cursorHandlers >>
     ELSE /\ built' = [built EXCEPT ![i] = TRUE]
          /\ attached' = [attached EXCEPT ![i] = TRUE]
          /\ unsettled' = [unsettled EXCEPT ![i] = U]
          /\ track' = [track EXCEPT ![i] = [EmptyTrack EXCEPT !.children = BaseChildren(i)]]
          /\ IF WantsCursor(i)
             THEN CreateCustomCursor(i)
             ELSE UNCHANGED << sharedCursor, animPending, cursorInstances, cursorHandlers >>
          /\ UNCHANGED obs
  /\ UNCHANGED << sections, page, hidden, imagesLoaded, published, retries, timers,
                  resizeTimer, innerWidth, innerHeight, pointerItem >>

\* The "load" event of image k, or its "error" event if the image is broken:
\* both listeners are the promise's resolve.
ImageSettle(i, k) ==
  /\ ~MicrotaskPending
  /\ k \in unsettled[i]
  /\ unsettled' = [unsettled EXCEPT ![i] = @ \ {k}]
  /\ UNCHANGED << sections, page, life, built, attached, hidden, imagesLoaded, track,
                  published, retries, timers, resizeTimer, innerWidth, innerHeight,
                  sharedCursor, cursorInstances, cursorHandlers, animPending, obs, pointerItem >>

\* waitForImages(sliderTrack).then(...)
ImagesReady(i) ==
  /\ i \in sections
  /\ ContinuationPending(i)
  /\ imagesLoaded' = [imagesLoaded EXCEPT ![i] = TRUE]
  /\ Commit(i, CalculateAnimation(i,
                 DuplicateSlides(i, PipeState(i, StartBuild(obs[i])), FALSE)))
  /\ UNCHANGED << sections, page, life, built, attached, hidden, unsettled, timers,
                  resizeTimer, innerWidth, innerHeight, sharedCursor, cursorInstances,
                  cursorHandlers, animPending, pointerItem >>

\* The retry callbacks of one track that are due in a frame, run in order.
RECURSIVE RunRetries(_, _, _)
RunRetries(i, st, n) ==
  IF n = 0 THEN st ELSE RunRetries(i, DuplicateSlides(i, st, TRUE), n - 1)

\* lerp(start, end, 0.1)
Lerp(start, end) == start + (end - start) \div LerpDivisor

\* animate(): one step of the cursor towards its target.
Animate(c) ==
  [c EXCEPT !.currentX = Lerp(@, c.targetX), !.currentY = Lerp(@, c.targetY)]

RECURSIVE RunAnimate(_, _)
RunAnimate(c, n) == IF n = 0 THEN c ELSE RunAnimate(Animate(c), n - 1)

\* An animation frame: every callback requested before it runs once; what a
\* callback requests runs in the next frame.
Frame ==
  /\ ~MicrotaskPending
  /\ animPending > 0 \/ \E i \in sections : retries[i] > 0
  /\ LET after == [i \in Insts |->
                     RunRetries(i, [PipeState(i, obs[i]) EXCEPT !.retries = 0], retries[i])]
     IN /\ track' = [i \in Insts |-> after[i].track]
        /\ retries' = [i \in Insts |-> after[i].retries]
        /\ published' = [i \in Insts |-> after[i].published]
        /\ obs' = [i \in Insts |-> after[i].obs]
  /\ IF sharedCursor = Null
     THEN animPending' = 0 /\ UNCHANGED sharedCursor
     ELSE sharedCursor' = RunAnimate(sharedCursor, animPending) /\ UNCHANGED animPending
  /\ UNCHANGED << sections, page, life, built, attached, hidden, unsettled, imagesLoaded,
                  timers, resizeTimer, innerWidth, innerHeight, cursorInstances,
                  cursorHandlers, pointerItem >>

\* clearTimeout(id)
ClearTimeout(T, id) == {t \in T : t.id # id}

\* The id setTimeout returns: one no pending timer has.
NewTimerId(T) == CHOOSE n \in 1 .. Cardinality(T) + 1 : \A t \in T : t.id # n

\* Variant: the listener schedules without clearing the timer it scheduled
\* before.
TimersAfterResize_NoClear(i) ==
  timers[i] \cup {[id |-> NewTimerId(timers[i]), remaining |-> DebounceDelay]}

\* The resize listener of bindEvents, for one instance.
TimersAfterResize(i) ==
  LET kept == ClearTimeout(timers[i], resizeTimer[i])
  IN kept \cup {[id |-> NewTimerId(kept), remaining |-> DebounceDelay]}

\* A resize notification: every bound listener runs (a listener is never
\* removed, not even by destroy).
ResizeEvent(v) ==
  /\ ~MicrotaskPending
  /\ \A i \in sections : retries[i] < MaxChains
  /\ innerWidth' = v.w
  /\ innerHeight' = v.h
  /\ timers' = [i \in Insts |-> IF built[i] THEN TimersAfterResize(i) ELSE timers[i]]
  /\ resizeTimer' = [i \in Insts |->
                       IF built[i] THEN NewTimerId(ClearTimeout(timers[i], resizeTimer[i]))
                       ELSE resizeTimer[i]]
  /\ obs' = [i \in Insts |->
               IF built[i]
               THEN [obs[i] EXCEPT !.sinceResize = 0, !.notified = TRUE, !.fired = 0,
                                   !.superseded = timers[i] # {}]
               ELSE IF life[i] # "none" THEN [obs[i] EXCEPT !.ignoredResize = TRUE]
               ELSE obs[i]]
  /\ UNCHANGED << sections, page, life, built, attached, hidden, unsettled, imagesLoaded,
                  track, published, retries, sharedCursor, cursorInstances,
                  cursorHandlers, animPending, pointerItem >>

\* Time passes by d ms: no pending timer is overdue afterwards.
Advance(d) ==
  /\ ~MicrotaskPending
  /\ \E i \in sections : timers[i] # {}
  /\ \A i \in sections : \A t \in timers[i] : t.remaining >= d
  /\ timers' = [i \in Insts |-> {[t EXCEPT !.remaining = @ - d] : t \in timers[i]}]
  /\ obs' = [i \in Insts |-> [obs[i] EXCEPT !.sinceResize = Min(DebounceDelay, @ + d)]]
  /\ UNCHANGED << sections, page, life, built, attached, hidden, unsettled, imagesLoaded,
                  track, published, retries, resizeTimer, innerWidth, innerHeight,
                  sharedCursor, cursorInstances, cursorHandlers, animPending, pointerItem >>

\* The last build attempt of a live instance ended without initializing.
FailedBuild(i) ==
  /\ life[i] = "live" /\ imagesLoaded[i] /\ retries[i] = 0
  /\ ~track[i].initialized
  /\ obs[i].warned \cap {"MeasurementUnavailable", "ZeroDistance"} # {}

\* The track would measure: it is laid out and its base sequence has width.
GeometryValid(i) ==
  /\ attached[i] /\ ~hidden[i]
  /\ ContentWidth(i, BaseChildren(i)) > 0
  /\ ScrollDistance(i, BaseChildren(i)) > 0

\* if (!sliderTrack || !sliderTrack.dataset.initialized) return;
ResetGuard(i) == attached[i] /\ track[i].initialized

\* Variant: resetSlider without its two guards.
ResetSlider_Unguarded(i, o) ==
  CalculateAnimation(i,
    DuplicateSlides(i,
      [PipeState(i, o) EXCEPT !.track.children = BaseChildren(i),
                              !.track.initialized = FALSE,
                              !.obs = StartBuild(@)],
      FALSE))

\* resetSlider()
ResetSlider(i, o) ==
  LET st == PipeState(i, o)
  IN IF ~imagesLoaded[i] THEN st
     ELSE IF ~ResetGuard(i) THEN st
     ELSE CalculateAnimation(i,
            DuplicateSlides(i,
              [st EXCEPT !.track.children = BaseChildren(i),
                         !.track.initialized = FALSE,
                         !.obs = StartBuild(@)],
              FALSE))

\* A debounce timer of instance i comes due: its callback calls resetSlider.
TimerFire(i) ==
  /\ ~MicrotaskPending
  /\ \E t \in timers[i] :
       /\ t.remaining = 0
       /\ timers' = [timers EXCEPT ![i] = @ \ {t}]
  /\ LET ran == imagesLoaded[i] /\ ResetGuard(i)
         o == [obs[i] EXCEPT !.fired = Min(@ + 1, 2),
                             !.superseded = FALSE,
                             !.firedEarly = @ \/ obs[i].sinceResize < DebounceDelay,
                             !.lastReset = IF ran THEN "rerun" ELSE "noop",
                             !.resetPre = FailedBuild(i) /\ GeometryValid(i),
                             !.crossed = /\ ran /\ published[i] # Null
                                         /\ (published[i].duration.den = SpeedMobile)
                                              # (innerWidth < MobileBreakpoint)]
     IN Commit(i, ResetSlider(i, o))
  /\ UNCHANGED << sections, page, life, built, attached, hidden, unsettled, imagesLoaded,
                  resizeTimer, innerWidth, innerHeight, sharedCursor, cursorInstances,
                  cursorHandlers, animPending, pointerItem >>

\* The section is hidden (display: none) or shown again by the page.
SetHidden(i, h) ==
  /\ ~MicrotaskPending
  /\ i \in sections /\ life[i] = "live" /\ built[i]
  /\ hidden[i] # h
  /\ hidden' = [hidden EXCEPT ![i] = h]
  /\ UNCHANGED << sections, page, life, built, attached, unsettled, imagesLoaded, track,
                  published, retries, timers, resizeTimer, innerWidth, innerHeight,
                  sharedCursor, cursorInstances, cursorHandlers, animPending, obs, pointerItem >>

\* Variant: destroy removes the shared cursor without looking at the
\* registrants that are left.
ReleaseCursor_Eager(i) ==
  [instances |-> cursorInstances \ {i},
   cursor |-> Null,
   anim |-> IF sharedCursor # Null THEN Max(animPending - 1, 0) ELSE animPending]

\* Variant: the last release removes the cursor without cancelling its
\* animation frame.
ReleaseCursor_NoCancel(i) ==
  LET rest == cursorInstances \ {i}
  IN [instances |-> rest,
      cursor |-> IF rest = {} THEN Null ELSE sharedCursor,
      anim |-> animPending]

\* destroy(): unregister; the shared cursor goes with its last registrant.
ReleaseCursor(i) ==
  LET rest == cursorInstances \ {i}
      last == rest = {} /\ sharedCursor # Null
  IN [instances |-> rest,
      cursor |-> IF last THEN Null ELSE sharedCursor,
      anim |-> IF last THEN Max(animPending - 1, 0) ELSE animPending]

\* destroy(): if (this.resizeTimer) clearTimeout(this.resizeTimer)
TimersAfterDestroy(i) ==
  IF resizeTimer[i] # 0 THEN ClearTimeout(timers[i], resizeTimer[i]) ELSE timers[i]

\* destroy(), on an instance that was constructed (also a second time).
Destroy(i) ==
  /\ i \in sections
  /\ life[i] # "none"
  /\ life' = [life EXCEPT ![i] = "destroyed"]
  /\ attached' = [attached EXCEPT ![i] = FALSE]
  /\ cursorHandlers' = [cursorHandlers EXCEPT ![i] = FALSE]
  /\ cursorInstances' = ReleaseCursor(i).instances
  /\ sharedCursor' = ReleaseCursor(i).cursor
  /\ animPending' = ReleaseCursor(i).anim
  /\ published' = [published EXCEPT ![i] = Null]
  /\ timers' = [timers EXCEPT ![i] = TimersAfterDestroy(i)]
  /\ obs' = [obs EXCEPT ![i].releasedMoved =
                 @ \/ (/\ ReleaseCursor(i).cursor = Null /\ sharedCursor # Null
                       /\ sharedCursor.currentX # 0)]
  /\ UNCHANGED << sections, page, built, hidden, unsettled, imagesLoaded, track, retries,
                  resizeTimer, innerWidth, innerHeight, pointerItem >>

\* Where the pointer may be.
PointerPositions == { [x |-> 12, y |-> 310], [x |-> 0, y |-> 300] }

\* mouseMoveHandler: the pointer moves over the wrapper of instance i, over
\* its item k (k = 0: over no item).
CursorAfterMove(i, pos, k) ==
  LET c == [sharedCursor EXCEPT !.targetX = pos.x, !.targetY = pos.y]
  IN IF k = 0 THEN [c EXCEPT !.active = FALSE, !.icon = FALSE]
     ELSE IF page[i].items[k].title # ""
          THEN [c EXCEPT !.text = page[i].items[k].title, !.active = TRUE,
                         !.icon = page[i].items[k].link]
          ELSE c

\* What is observed of the pointer: the item the latest pointer event of
\* instance i was over (k = 0: over no item), or that the pointer has left.
PointerOver(i, k) == IF k = 0 THEN Null ELSE page[i].items[k]

PointerLeft == [left |-> TRUE]

MouseMove(i, pos, k) ==
  /\ ~MicrotaskPending
  /\ cursorHandlers[i]
  /\ k \in ItemIndices(i) \cup {0}
  /\ sharedCursor' = CursorAfterMove(i, pos, k)
  /\ pointerItem' = PointerOver(i, k)
  /\ UNCHANGED << sections, page, life, built, attached, hidden, unsettled, imagesLoaded,
                  track, published, retries, timers, resizeTimer, innerWidth, innerHeight,
                  cursorInstances, cursorHandlers, animPending, obs >>

\* Variant: the leave handler hides the icon only.
CursorAfterLeave_IconOnly(c) == [c EXCEPT !.icon = FALSE]

\* mouseLeaveHandler: classList.remove("active"), icon display none.
CursorAfterLeave(c) == [c EXCEPT !.active = FALSE, !.icon = FALSE]

\* The pointer leaves the wrapper of instance i.
MouseLeave(i) ==
  /\ ~MicrotaskPending
  /\ cursorHandlers[i]
  /\ sharedCursor' = CursorAfterLeave(sharedCursor)
  /\ pointerItem' = PointerLeft
  /\ UNCHANGED << sections, page, life, built, attached, hidden, unsettled, imagesLoaded,
                  track, published, retries, timers, resizeTimer, innerWidth, innerHeight,
                  cursorInstances, cursorHandlers, animPending, obs >>

\* ------------------------------------------------------------ specifications
\* One engine instance: its build pipeline, resize reconciliation and destroy.
Next ==
  \/ \E i \in Insts : \E U \in SUBSET ItemIndices(i) : Construct(i, U)
  \/ \E i \in Insts : \E k \in unsettled[i] : ImageSettle(i, k)
  \/ \E i \in Insts : ImagesReady(i)
  \/ Frame
  \/ \E v \in Viewports : ResizeEvent(v)
  \/ \E d \in TimeSteps : Advance(d)
  \/ \E i \in Insts : TimerFire(i)
  \/ \E i \in Insts : \E h \in BOOLEAN : SetHidden(i, h)
  \/ \E i \in Insts : Destroy(i)

Spec == Init /\ [][Next]_vars

\* Several engine instances and the shared cursor: instances are constructed
\* and destroyed in any order while their images are still loading, and the
\* pointer moves over them.
NextOverlay ==
  \/ \E i \in Insts : Construct(i, ItemIndices(i))
  \/ \E i \in Insts : Destroy(i)
  \/ \E i \in Insts : \E pos \in PointerPositions : \E k \in 0 .. Len(page[i].items) :
       MouseMove(i, pos, k)
  \/ \E i \in Insts : MouseLeave(i)
  \/ Frame

SpecOverlay == InitOverlay /\ [][NextOverlay]_vars

\* Several engine instances, constructed and destroyed in any order while the
\* window is resized between mobile and desktop widths.
NextAcquire ==
  \/ \E i \in Insts : Construct(i, ItemIndices(i))
  \/ \E i \in Insts : Destroy(i)
  \/ \E v \in Viewports : ResizeEvent(v)
  \/ Frame

SpecAcquire == InitOverlay /\ [][NextAcquire]_vars

\* ------------------------------------------------------------ properties
HasClones(i) == \E k \in 1 .. Len(track[i].children) : track[i].children[k].cloned

\* C1: whenever a track carries the "initialized" marker, clones have been
\* appended and the rendered width of originals plus clones is at least three
\* times the viewport width the build measured.
C1_InitializedImpliesCoverage ==
  \A i \in sections :
    track[i].initialized =>
      /\ HasClones(i)
      /\ ContentWidth(i, track[i].children) >= CoverageFactor * obs[i].measuredVw

C3_AbortLeavesTrackBare ==
  \A i \in sections :
    "MeasurementUnavailable" \in obs[i].warned =>
      /\ ~HasClones(i)
      /\ ~obs[i].buildPublished
      /\ ~track[i].initialized

\* C4: once the deferred duplication of a live instance has appended the
\* clones and no retry is pending, the build is complete: the parameters are
\* published and the track is marked initialized.
C4_DeferredBuildCompletes ==
  \A i \in sections :
    (life[i] = "live" /\ obs[i].deferredDone /\ retries[i] = 0) =>
      track[i].initialized /\ obs[i].buildPublished

\* C5: a debounced resize that fires after a failed build, on a track whose
\* geometry is valid, reruns the pipeline and leaves the track initialized.
C5_ResizeRecovers ==
  \A i \in sections :
    obs[i].resetPre => obs[i].lastReset = "rerun" /\ track[i].initialized

\* C6: a destroyed instance has no retry frame pending, and no Duplicator or
\* Timing pass has run for it after its destroy.
C6_DestroyCancelsPipeline ==
  \A i \in sections :
    life[i] = "destroyed" => retries[i] = 0 /\ ~obs[i].afterDestroy

\* C7: the shared cursor exists if and only if some instance is registered.
C7_OverlayIffRegistered == (sharedCursor # Null) <=> (cursorInstances # {})

\* An instance that never registered has been destroyed (twice is the same
\* state) while another instance holds the shared cursor.
C7_Witness ==
  \E i, j \in sections :
    /\ life[i] = "destroyed" /\ ~(built[i] /\ WantsCursor(i))
    /\ life[j] = "live" /\ j \in cursorInstances
    /\ sharedCursor # Null

\* C8: a destroy that leaves a registrant leaves the shared cursor as it is;
\* the destroy of the last registrant removes it; a shared cursor that comes
\* into existence has target and current position at the left edge, at half
\* the viewport height.
C8_RefCountedOverlay ==
  [][ /\ (cursorInstances' # {} /\ cursorInstances' # cursorInstances
            /\ cursorInstances' \subseteq cursorInstances)
          => sharedCursor' = sharedCursor
      /\ (cursorInstances # {} /\ cursorInstances' = {}) => sharedCursor' = Null
      /\ (sharedCursor = Null /\ sharedCursor' # Null)
          => /\ sharedCursor'.targetX = 0 /\ sharedCursor'.currentX = 0
             /\ sharedCursor'.targetY = innerHeight' \div 2
             /\ sharedCursor'.currentY = innerHeight' \div 2 ]_vars

\* Two registered instances were destroyed, the second releasing a cursor
\* that had moved, and a third holds a cursor at the initial position.
C8_Witness ==
  \E a, b, c \in sections :
    /\ a # b /\ life[a] = "destroyed" /\ life[b] = "destroyed"
    /\ built[a] /\ WantsCursor(a) /\ built[b] /\ WantsCursor(b)
    /\ obs[b].releasedMoved
    /\ c \in cursorInstances
    /\ sharedCursor # Null
    /\ sharedCursor.currentX = 0 /\ sharedCursor.currentY = innerHeight \div 2
    /\ sharedCursor.targetX = 0 /\ sharedCursor.targetY = innerHeight \div 2

\* C9: at most one debounce timer of an instance is pending, it is the one
\* scheduled last and comes due 250 ms after the last notification;
\* resetSlider is never invoked earlier, at most once per burst, and once when
\* the timer of a live instance is no longer pending.
C9_Debounce ==
  \A i \in sections :
    /\ Cardinality(timers[i]) <= 1
    /\ \A t \in timers[i] :
         t.id = resizeTimer[i] /\ t.remaining = DebounceDelay - obs[i].sinceResize
    /\ ~obs[i].firedEarly
    /\ obs[i].fired <= 1
    /\ (life[i] = "live" /\ obs[i].notified /\ timers[i] = {}) => obs[i].fired = 1

\* In a burst a notification has superseded the timer of an earlier one, and
\* the one timer left has come due, 250 ms after the last notification, on an
\* initialized track (resetSlider has not been invoked in the burst so far).
C9_Witness ==
  \E i \in sections :
    /\ life[i] = "live" /\ obs[i].superseded /\ obs[i].fired = 0
    /\ \E t \in timers[i] : t.remaining = 0
    /\ obs[i].sinceResize = DebounceDelay
    /\ track[i].initialized /\ HasClones(i)

C11_EarlyResizeIsNoOp ==
  [][ \A i \in Insts :
        (TimerFire(i) /\ ~imagesLoaded[i]) =>
          /\ track'[i] = track[i]
          /\ published'[i] = published[i]
          /\ retries'[i] = retries[i] ]_vars

\* The debounced resize has fired on a shown track while an image was still
\* loading.
C11_Witness ==
  \E i \in sections :
    /\ life[i] = "live" /\ built[i] /\ ~hidden[i]
    /\ unsettled[i] # {} /\ ~imagesLoaded[i]
    /\ obs[i].fired = 1 /\ obs[i].lastReset = "noop"

\* C12: every pass that appended clones started from a track without clones,
\* and the track is the base sequence followed by k whole copies of it in
\* order, all tagged, k being the duplication count of the latest such pass
\* (the base sequence alone while no pass has appended since the build began).
C12_ClonesNeverAccumulate ==
  \A i \in sections :
    built[i] =>
      IF obs[i].dup.tw > 0
      THEN /\ ~obs[i].dup.fromClones
           /\ track[i].children =
                 WithClones(BaseChildren(i), Duplications(obs[i].dup.vw, obs[i].dup.tw))
      ELSE track[i].children = BaseChildren(i)

\* C13: a build attempt in which calculateAnimation computed a scroll
\* distance of 0 (and reported it) has published neither parameter and has
\* not marked the track initialized.
C13_ZeroDistancePublishesNothing ==
  \A i \in sections :
    "ZeroDistance" \in obs[i].warned =>
      ~obs[i].buildPublished /\ ~track[i].initialized

\* A reconciliation of a track that had been built and published ended in
\* ZeroDistance: the parameters of the earlier build are all there is.
C13_Witness ==
  \E i \in sections :
    /\ life[i] = "live" /\ obs[i].lastReset = "rerun"
    /\ "ZeroDistance" \in obs[i].warned
    /\ published[i] # Null /\ ~obs[i].buildPublished /\ ~track[i].initialized

\* C14: when an attempt of a live instance has finished (the images have
\* settled and no retry frame is pending) and the track is not marked
\* initialized, the track holds no clones and the attempt has published no
\* parameters.
C14_NoPartialBuild ==
  \A i \in sections :
    (life[i] = "live" /\ imagesLoaded[i] /\ retries[i] = 0 /\ ~track[i].initialized) =>
      ~HasClones(i) /\ ~obs[i].buildPublished

\* C15: the published scroll distance of a section is the sum of the widths
\* of the items of its base sequence plus one gap per item, whatever the
\* number of clones in the track.
C15_ScrollDistanceFormula ==
  \A i \in sections :
    published[i] # Null =>
      published[i].distance =
        0 - (SumSeq([k \in ItemIndices(i) |-> page[i].items[k].w])
               + page[i].gap * Len(page[i].items))

\* C16: whenever parameters are published, the duration (kept as num/den)
\* times the speed is the published scroll distance, and the speed is
\* speedMobile exactly when the viewport is narrower than 768 at that moment,
\* speedDesktop otherwise; this holds also of a reconciliation after a resize
\* across 768.
C16_DurationBySpeed ==
  [][ \A i \in Insts :
        (published'[i] # published[i] /\ published'[i] # Null) =>
          /\ published'[i].duration.num = 0 - published'[i].distance
          /\ published'[i].duration.num > 0
          /\ published'[i].duration.den =
               IF innerWidth' < 768 THEN SpeedMobile ELSE SpeedDesktop ]_vars

\* A reconciliation has republished at a viewport of 768, with speedDesktop,
\* the parameters of a track that had been timed with speedMobile (at 767 or
\* below).
C16_Witness ==
  \E i \in sections :
    /\ obs[i].crossed /\ obs[i].lastReset = "rerun" /\ obs[i].buildPublished
    /\ innerWidth = 768
    /\ published[i] # Null
    /\ published[i].duration = [num |-> 0 - published[i].distance, den |-> SpeedDesktop]

\* C17: the latest pass that appended clones appended exactly
\* max(2, ceil(3 * viewport / trackWidth)) copies of the base sequence, for the
\* viewport and the non-zero track width it measured; the copies are tagged
\* as clones and in original order, and the originals are untagged.
C17_DuplicationCount ==
  \A i \in sections :
    obs[i].dup.tw > 0 =>
      LET ch == track[i].children
          n  == Len(page[i].items)
      IN /\ Len(ch) = obs[i].dup.from + n * Duplications(obs[i].dup.vw, obs[i].dup.tw)
         /\ \A k \in 1 .. Len(ch) :
              /\ ch[k].index = ((k - 1) % n) + 1
              /\ ch[k].cloned <=> k > n

\* C18: an instance constructed without items has built nothing (no track, no
\* listener), has run no pass, has no retry frame and no debounce timer
\* pending, has published nothing and is not registered with the shared
\* cursor, whatever has happened since.
C18_MissingSourceIsInert ==
  \A i \in sections :
    (life[i] # "none" /\ page[i].items = << >>) =>
      /\ ~built[i] /\ ~attached[i] /\ ~imagesLoaded[i]
      /\ track[i] = EmptyTrack
      /\ published[i] = Null
      /\ retries[i] = 0 /\ timers[i] = {} /\ resizeTimer[i] = 0
      /\ i \notin cursorInstances /\ ~cursorHandlers[i]
      /\ obs[i].measuredVw = 0 /\ obs[i].fired = 0 /\ ~obs[i].notified

\* An instance without items, configured with the custom cursor, was
\* constructed; a resize notification came, at a desktop viewport; it was
\* destroyed.
C18_Witness ==
  \E i \in sections :
    /\ life[i] = "destroyed" /\ page[i].items = << >> /\ page[i].customCursor
    /\ "MissingSource" \in obs[i].warned
    /\ obs[i].ignoredResize /\ innerWidth = 768

\* C19: whenever the shared cursor is in its active display state, the text
\* and the link icon it shows are those of the item the latest pointer event
\* was over.
C19_OverlayShowsCurrentItem ==
  (sharedCursor # Null /\ sharedCursor.active) =>
    /\ pointerItem \notin {Null, PointerLeft}
    /\ sharedCursor.text = pointerItem.title
    /\ sharedCursor.icon = pointerItem.link

\* C20: when the pointer leaves the wrapper of an instance the shared cursor
\* is no longer active and its icon is hidden, while the cursor still exists,
\* with the same registrants, the same target and current position and the
\* same pending animation frame.
C20_LeaveClearsDisplayOnly ==
  [][ \A i \in Insts :
        MouseLeave(i) =>
          /\ sharedCursor' # Null
          /\ ~sharedCursor'.active /\ ~sharedCursor'.icon
          /\ cursorInstances' = cursorInstances
          /\ i \in cursorInstances'
          /\ sharedCursor'.targetX = sharedCursor.targetX
          /\ sharedCursor'.targetY = sharedCursor.targetY
          /\ sharedCursor'.currentX = sharedCursor.currentX
          /\ sharedCursor'.currentY = sharedCursor.currentY
          /\ animPending' = animPending /\ animPending' > 0 ]_vars

\* The pointer has left a wrapper after an item with a title had been under
\* it and while the cursor was moving towards it; two instances are
\* registered.
C20_Witness ==
  /\ pointerItem = PointerLeft
  /\ sharedCursor # Null
  /\ ~sharedCursor.active /\ ~sharedCursor.icon /\ sharedCursor.text = "one"
  /\ sharedCursor.targetX = 12 /\ sharedCursor.currentX \in 1 .. 11
  /\ Cardinality(cursorInstances) >= 2
  /\ animPending > 0

\* C21: exactly one animate callback is pending while the shared cursor
\* exists and none while it does not: the release of the last registrant
\* cancels the pending callback, so that no callback is left to run for a
\* removed cursor, and a cursor created afterwards has one callback of its
\* own.
C21_OneAnimationLoop ==
  animPending = IF sharedCursor = Null THEN 0 ELSE 1

\* A cursor that had moved was removed with its last registrant; a cursor
\* created since has been moved by its own loop.
C21_Witness ==
  /\ \E i \in sections : life[i] = "destroyed" /\ obs[i].releasedMoved
  /\ sharedCursor # Null /\ animPending = 1
  /\ sharedCursor.currentX # 0 /\ sharedCursor.currentX # sharedCursor.targetX

\* C22 as stated: every live instance that asks for the custom cursor and was
\* built with items is registered with the shared cursor, whatever the
\* viewport width was when it was built.
C22_RequestingInstancesRegistered ==
  \A i \in sections :
    (life[i] = "live" /\ page[i].customCursor /\ page[i].items # << >>) =>
      i \in cursorInstances

\* C22 amended: an instance registers when it is constructed, and only then,
\* if and only if it asks for the custom cursor, has items and the viewport is
\* at least 768 wide at that moment; the first to register creates the shared
\* cursor, a later one leaves the existing cursor as it is; a registrant
\* leaves the set only by its destroy, and only live instances are
\* registered.
C22_RegisteredWhenBuiltOnDesktop ==
  [][ /\ \A i \in Insts :
           /\ (life[i] = "none" /\ life'[i] = "live") =>
                /\ i \in cursorInstances' <=>
                     (page[i].customCursor /\ page[i].items # << >> /\ innerWidth >= 768)
                /\ cursorInstances' \ {i} = cursorInstances
                /\ sharedCursor # Null => sharedCursor' = sharedCursor
                /\ (sharedCursor = Null /\ i \in cursorInstances') => sharedCursor' # Null
           /\ (i \in cursorInstances' /\ i \notin cursorInstances) => life[i] = "none"
           /\ (i \in cursorInstances /\ i \notin cursorInstances') => life'[i] = "destroyed"
           /\ i \in cursorInstances' => life'[i] = "live"
      /\ Cardinality(cursorInstances') =
           Cardinality({i \in Insts : life'[i] = "live" /\ cursorHandlers'[i]}) ]_vars

\* An instance asking for the cursor was built at 767 and is not registered;
\* after a resize to 768 a second one created the cursor and a third one
\* registered with it.
C22_Witness ==
  \E a, b, c \in sections :
    /\ a # b /\ b # c /\ a # c
    /\ \A i \in {a, b, c} : life[i] = "live" /\ page[i].customCursor /\ built[i]
    /\ innerWidth = 768
    /\ cursorInstances = {b, c}
    /\ sharedCursor # Null

\* C23: at most one zero-width retry callback of a track is pending.
C23_OneRetryChain == \A i \in sections : retries[i] <= 1

\* C24: every build attempt starts with an attempt count of 0, the initial
\* build as well as each reconciliation that passes the guards of
\* resetSlider, so that a reconciliation never reports MeasurementUnavailable
\* on its own first measurement.
C24_FreshRetryBudget ==
  [][ \A i \in Insts :
        /\ ImagesReady(i) => track[i].attempts = 0
        /\ (TimerFire(i) /\ imagesLoaded[i] /\ ResetGuard(i)) =>
             /\ track[i].attempts = 0
             /\ "MeasurementUnavailable" \notin obs'[i].warned ]_vars

====
